---- MODULE Spec2Model ----
\* Model of the comment-bubble backend (python-backend/app.py, record.py,
\* init.py): process start-up (database initialisation, sentinel-triggered
\* password reset), the cookie session of each client, the login table and
\* the comments table, and one action per HTTP route.
EXTENDS Integers, Sequences, FiniteSets, TLC

\* ------------------------------------------------------------------ bounds
MaxRecords == 3       \* inserts explored since the comments table was created
MaxTicks == 3         \* clock steps explored
TickStep == 900       \* seconds per clock step

\* ------------------------------------------------------- program constants
max_age == 1800                       \* app.py:49
BEARER_TOKEN == "s3cret"              \* app.py:32 (value of the environment)
DefaultUser == "admin"                \* init.py:39
DefaultPassword == "password"         \* init.py:38 (plaintext of the seeded hash)
DefaultSalt == "l7bMrtz82jfIJk5Uq82mGQ"  \* init.py:40 (salt field of the seeded hash)

\* ------------------------------------------------------------ input domains
Clients == {"alice", "bob"}
Usernames == {DefaultUser, "guest"}
Passwords == {DefaultPassword, "hunter2"}
Salts == {"saltB"}
Texts == {"", "hi"}
Headers == {<<>>, <<"Bearer", BEARER_TOKEN>>, <<"Bearer", "wrong">>,
            <<"bearer", BEARER_TOKEN>>}
SentinelContents == {"0", "1", "1\n"}

VARIABLES
    pc,         \* position of the server process in app.py's __main__
    dbExists,   \* data.db exists on disk
    tables,     \* tables that exist in data.db
    sentinel,   \* contents of is_reset_password.txt
    login,      \* committed rows of table login: [username, password]
    comments,   \* committed rows of table comments: [id, text]
    seq,        \* sqlite_sequence entry of comments (AUTOINCREMENT high-water mark)
    cookie,     \* per client: <<>> or <<[data, ts]>>, the signed session cookie it holds
    now,        \* wall clock, seconds
    req,        \* the request served by the last step (route "none": no request)
    resp,       \* the response sent by the last step
    inserted,   \* history: texts accepted by /create_record since the last purge
    lastSet,    \* history: plaintext the stored hash was last computed from
    loginAt,    \* history: per client, time of its last successful login, -1 if ended
    lastActive, \* history: per client, time of its last response carrying a session
    boot        \* history: <<>> or <<[login, comments, sentinel]>> read at this start-up

vars == <<pc, dbExists, tables, sentinel, login, comments, seq, cookie, now,
          req, resp, inserted, lastSet, loginAt, lastActive, boot>>

\* ------------------------------------------------------------ credentials
\* An Argon2id PHC string carries its salt; verification recomputes the
\* digest of the candidate under that salt and compares.
Argon2Hash(password, salt) == <<"$argon2id$v=19$m=102400,t=2,p=8", salt, password>>

Argon2Verify(hash, password) == hash = Argon2Hash(password, hash[2])

DefaultHash == Argon2Hash(DefaultPassword, DefaultSalt)

\* cred.is_permitted: fails closed unless the username is the stored one and
\* the password verifies against the stored hash.
is_permitted(username, password) ==
    \E row \in login : row.username = username /\ Argon2Verify(row.password, password)

\* cred.change_cred: stores a freshly salted hash in the single credential row.
change_cred(new_pass, salt) ==
    {[row EXCEPT !.password = Argon2Hash(new_pass, salt)] : row \in login}

\* --------------------------------------------------------------- sessions
EmptySession == [k \in {} |-> [permitted |-> FALSE]]

\* request.session.pop("user", None)
SessionPop(session) == [k \in DOMAIN session \ {"user"} |-> session[k]]

\* request.session.get("user", {"permitted": False})
SessionGetUser(session) ==
    IF "user" \in DOMAIN session THEN session["user"] ELSE [permitted |-> FALSE]

\* SessionMiddleware, request side: the cookie's signature timestamp must be
\* at most max_age seconds old, else the request starts with an empty session.
CookieValid(ck) == ck /= <<>> /\ now - ck[1].ts <= max_age

LoadSession(ck) == IF CookieValid(ck) THEN ck[1].data ELSE EmptySession

\* Faulty variant: the cookie is signed when the session changes and kept as
\* it is otherwise, so its timestamp stays that of the login.
SaveSessionSignedOnce(ck, session) ==
    IF DOMAIN session /= {}
    THEN IF CookieValid(ck) /\ ck[1].data = session
         THEN ck
         ELSE <<[data |-> session, ts |-> now]>>
    ELSE IF CookieValid(ck) THEN <<>>
    ELSE ck

\* SessionMiddleware, response side: a non-empty session is re-signed with the
\* current time on every response; a session emptied by the handler clears
\* the cookie; an empty session that started empty sends no cookie.
SaveSession(ck, session) ==
    IF DOMAIN session /= {} THEN <<[data |-> session, ts |-> now]>>
    ELSE IF CookieValid(ck) THEN <<>>
    ELSE ck

\* verify_bearer_token
verify_bearer_token(header) ==
    header /= <<>> /\ header[1] = "Bearer" /\ header[2] = BEARER_TOKEN

\* ----------------------------------------------------------------- records
Max(a, b) == IF a >= b THEN a ELSE b

MaxId(rows) == IF rows = {} THEN 0 ELSE CHOOSE m \in {r.id : r \in rows} :
                                           \A r \in rows : r.id <= m

\* INSERT INTO comments (text): AUTOINCREMENT takes the id after the largest
\* ever used, which sqlite_sequence remembers across DELETE.
create_record(comment_text) ==
    LET id == Max(seq, MaxId(comments)) + 1
    IN  [comments |-> comments \cup {[id |-> id, text |-> comment_text]}, seq |-> id]

\* Faulty variant: the DELETE is rolled back instead of committed.
purge_not_committed == comments

\* DELETE FROM comments
purge_all_records == {}

RECURSIVE OrderByIdDesc(_)
OrderByIdDesc(rows) ==
    IF rows = {} THEN <<>>
    ELSE LET r == CHOOSE r \in rows : \A q \in rows : q.id <= r.id
         IN  <<r>> \o OrderByIdDesc(rows \ {r})

RECURSIVE OrderByIdAsc(_)
OrderByIdAsc(rows) ==
    IF rows = {} THEN <<>>
    ELSE LET r == CHOOSE r \in rows : \A q \in rows : q.id >= r.id
         IN  <<r>> \o OrderByIdAsc(rows \ {r})

\* Faulty variant: ORDER BY id without DESC.
get_all_records_ascending ==
    LET rows == OrderByIdAsc(comments)
    IN  [i \in 1..Len(rows) |-> rows[i].text]

\* SELECT text FROM comments ORDER BY id DESC
get_all_records ==
    LET rows == OrderByIdDesc(comments)
    IN  [i \in 1..Len(rows) |-> rows[i].text]

\* --------------------------------------------------------------- responses
NoData == <<>>

Envelope(status, message, data) ==
    [kind |-> "json", status |-> status, message |-> message, data |-> data]

Redirect(url) == [kind |-> "redirect", status |-> FALSE, message |-> url, data |-> NoData]

\* FastAPI's answer when a required Form(...) field is missing: 422, no envelope
Unprocessable == [kind |-> "validation", status |-> FALSE, message |-> "Field required",
                  data |-> NoData]

NoResponse == [kind |-> "none", status |-> FALSE, message |-> "", data |-> NoData]

NoRequest == [route |-> "none", client |-> "", form |-> <<>>, header |-> <<>>,
              session |-> EmptySession]

\* What a handler hands back: the session it leaves, its response, and the
\* database as it leaves it.
Outcome(session, response, loginRows, commentRows, sequence) ==
    [session |-> session, resp |-> response, login |-> loginRows,
     comments |-> commentRows, seq |-> sequence]

Same(session, response) == Outcome(session, response, login, comments, seq)

\* ------------------------------------------------------------------ routes
\* Each handler is given request.session as the middleware loaded it and
\* returns the session it leaves, the response and the database.

\* GET /status
status_route(session) == Same(session, Envelope(TRUE, "It's alive!", NoData))

\* Faulty variant: the user entry is not popped.
logout_route_keeps_user(session) ==
    Same(session, Envelope(TRUE, "Logged out!", NoData))

\* POST /logout
logout_route(session) ==
    Same(SessionPop(session), Envelope(TRUE, "Logged out!", NoData))

\* Faulty variant: a failed attempt leaves the session as it was.
login_route_keeps_session(session, username, password) ==
    IF ~is_permitted(username, password)
    THEN Same(session, Envelope(FALSE, "Invalid credentials!", NoData))
    ELSE Same([k \in DOMAIN session \cup {"user"} |-> [permitted |-> TRUE]],
              Envelope(TRUE, "Logged in!", NoData))

\* POST /login
login_route(session, username, password) ==
    IF ~is_permitted(username, password)
    THEN Same(SessionPop(session), Envelope(FALSE, "Invalid credentials!", NoData))
    ELSE Same([k \in DOMAIN session \cup {"user"} |-> [permitted |-> TRUE]],
              Envelope(TRUE, "Logged in!", NoData))

\* GET /admin_check
check_user_route(session) ==
    IF ~SessionGetUser(session).permitted
    THEN Same(session, Envelope(FALSE, "Log in first!", NoData))
    ELSE Same(session, Envelope(TRUE, "User permitted!", NoData))

\* Faulty variant: success is reported without change_cred being called.
change_pass_route_without_change_cred(session, new_pass, header, salt) ==
    IF ~(verify_bearer_token(header) \/ SessionGetUser(session).permitted)
    THEN Same(session, Envelope(FALSE, "Login first!", NoData))
    ELSE Same(session, Envelope(TRUE, "Password changed!", NoData))

\* Faulty variant: the rotation also drops the caller's user entry.
change_pass_route_logs_out(session, new_pass, header, salt) ==
    IF ~(verify_bearer_token(header) \/ SessionGetUser(session).permitted)
    THEN Same(session, Envelope(FALSE, "Login first!", NoData))
    ELSE Outcome(SessionPop(session), Envelope(TRUE, "Password changed!", NoData),
                 change_cred(new_pass, salt), comments, seq)

\* POST /change_pass; salt is the random salt of the new hash
change_pass_route(session, new_pass, header, salt) ==
    IF ~(verify_bearer_token(header) \/ SessionGetUser(session).permitted)
    THEN Same(session, Envelope(FALSE, "Login first!", NoData))
    ELSE Outcome(session, Envelope(TRUE, "Password changed!", NoData),
                 change_cred(new_pass, salt), comments, seq)

\* POST /create_record
create_record_route(session, comment_text) ==
    LET db == create_record(comment_text)
    IN  Outcome(session, Envelope(TRUE, "Comment created!", NoData),
                login, db.comments, db.seq)

\* GET /get_all_records
get_all_records_route(session) ==
    Same(session, Envelope(TRUE, "Success!", get_all_records))

\* DELETE /purge_all_records
purge_all_records_route(session, header) ==
    IF ~(verify_bearer_token(header) \/ SessionGetUser(session).permitted)
    THEN Same(session, Redirect("/login/"))
    ELSE Outcome(session, Envelope(TRUE, "All records deleted!", NoData),
                 login, purge_all_records, seq)

\* ---------------------------------------------------------------- history
Succeeded(response) == response.kind = "json" /\ response.status

\* The history variables are functions of the requests and responses alone.
Observe(request, response) ==
    LET c == request.client
        route == request.route
    IN  /\ inserted' =
              IF route = "create_record" /\ Succeeded(response)
              THEN Append(inserted, request.form[1])
              ELSE IF route = "purge_all_records" /\ Succeeded(response)
              THEN <<>>
              ELSE inserted
        /\ lastSet' =
              IF route = "change_pass" /\ Succeeded(response)
              THEN request.form[1]
              ELSE lastSet
        /\ loginAt' =
              IF route = "login" /\ Succeeded(response)
              THEN [loginAt EXCEPT ![c] = now]
              ELSE IF route \in {"login", "logout"} /\ response.kind = "json"
              THEN [loginAt EXCEPT ![c] = -1]
              ELSE loginAt
        /\ lastActive' =
              IF route = "login" /\ Succeeded(response)
              THEN [lastActive EXCEPT ![c] = now]
              ELSE IF route \in {"login", "logout"} /\ response.kind = "json"
              THEN [lastActive EXCEPT ![c] = -1]
              ELSE IF SessionGetUser(request.session).permitted
              THEN [lastActive EXCEPT ![c] = now]
              ELSE lastActive

\* One request of client c through SessionMiddleware and its handler.
Serve(c, route, form, header, out) ==
    /\ pc = "serving"
    /\ req' = [route |-> route, client |-> c, form |-> form, header |-> header,
               session |-> LoadSession(cookie[c])]
    /\ resp' = out.resp
    /\ cookie' = [cookie EXCEPT ![c] = SaveSession(cookie[c], out.session)]
    /\ login' = out.login
    /\ comments' = out.comments
    /\ seq' = out.seq
    /\ Observe(req', resp')
    /\ UNCHANGED <<pc, dbExists, tables, sentinel, now, boot>>

Status(c) ==
    Serve(c, "status", <<>>, <<>>, status_route(LoadSession(cookie[c])))

Logout(c) ==
    Serve(c, "logout", <<>>, <<>>, logout_route(LoadSession(cookie[c])))

Login(c, username, password) ==
    Serve(c, "login", <<username, password>>, <<>>,
          login_route(LoadSession(cookie[c]), username, password))

AdminCheck(c) ==
    Serve(c, "admin_check", <<>>, <<>>, check_user_route(LoadSession(cookie[c])))

ChangePass(c, new_pass, header, salt) ==
    Serve(c, "change_pass", <<new_pass>>, header,
          change_pass_route(LoadSession(cookie[c]), new_pass, header, salt))

CreateRecord(c, comment_text) ==
    /\ seq < MaxRecords
    /\ Serve(c, "create_record", <<comment_text>>, <<>>,
             create_record_route(LoadSession(cookie[c]), comment_text))

GetAllRecords(c) ==
    Serve(c, "get_all_records", <<>>, <<>>,
          get_all_records_route(LoadSession(cookie[c])))

PurgeAllRecords(c, header) ==
    Serve(c, "purge_all_records", <<>>, header,
          purge_all_records_route(LoadSession(cookie[c]), header))

\* A request to a route with required form fields that sends none of them:
\* FastAPI answers before the handler runs; the middleware still wraps it.
FormRoutes == {"login", "change_pass", "create_record"}

MissingForm(c, route, header) ==
    Serve(c, route, <<>>, header, Same(LoadSession(cookie[c]), Unprocessable))

\* ---------------------------------------------------------------- start-up
Quiet == req' = NoRequest /\ resp' = NoResponse

\* file.read().strip()
Strip(text) == IF text = "1\n" THEN "1" ELSE text

\* init.make_comments
make_comments ==
    /\ tables' = tables \cup {"comments"}
    /\ comments' = {}
    /\ seq' = 0

\* init.make_login up to its first commit: the table is dropped and recreated
make_login_create ==
    /\ tables' = tables \cup {"login"}
    /\ login' = {}

\* init.make_login from its first commit on: the default row is inserted
make_login_insert ==
    /\ login' = login \cup {[username |-> DefaultUser, password |-> DefaultHash]}
    /\ UNCHANGED tables

\* __main__: data.db is missing, init() is entered
StartInit ==
    /\ pc = "off" /\ ~dbExists
    /\ pc' = "init_make_comments"
    /\ Quiet
    /\ UNCHANGED <<dbExists, tables, sentinel, login, comments, seq, cookie, now,
                   inserted, lastSet, loginAt, lastActive, boot>>

InitMakeComments ==
    /\ pc = "init_make_comments"
    /\ dbExists' = TRUE
    /\ make_comments
    /\ inserted' = <<>>
    /\ pc' = "init_make_login"
    /\ Quiet
    /\ UNCHANGED <<sentinel, login, cookie, now, lastSet, loginAt, lastActive, boot>>

InitMakeLoginCreate ==
    /\ pc = "init_make_login"
    /\ make_login_create
    /\ lastSet' = ""
    /\ pc' = "init_insert_login"
    /\ Quiet
    /\ UNCHANGED <<dbExists, sentinel, comments, seq, cookie, now, inserted,
                   loginAt, lastActive, boot>>

\* the default row is inserted, init() returns and the process exits
InitMakeLoginInsert ==
    /\ pc = "init_insert_login"
    /\ make_login_insert
    /\ lastSet' = DefaultPassword
    /\ pc' = "off"
    /\ Quiet
    /\ UNCHANGED <<dbExists, sentinel, comments, seq, cookie, now, inserted,
                   loginAt, lastActive, boot>>

\* __main__: data.db exists; the sentinel file is opened and read
ReadSentinel ==
    /\ pc = "off" /\ dbExists
    /\ boot' = <<[login |-> login, comments |-> comments, sentinel |-> sentinel]>>
    /\ pc' = IF Strip(sentinel) = "1" THEN "reset_make_login" ELSE "run"
    /\ Quiet
    /\ UNCHANGED <<dbExists, tables, sentinel, login, comments, seq, cookie, now,
                   inserted, lastSet, loginAt, lastActive>>

ResetMakeLoginCreate ==
    /\ pc = "reset_make_login"
    /\ make_login_create
    /\ lastSet' = ""
    /\ pc' = "reset_insert_login"
    /\ Quiet
    /\ UNCHANGED <<dbExists, sentinel, comments, seq, cookie, now, inserted,
                   loginAt, lastActive, boot>>

ResetMakeLoginInsert ==
    /\ pc = "reset_insert_login"
    /\ make_login_insert
    /\ lastSet' = DefaultPassword
    /\ pc' = "reset_write_sentinel"
    /\ Quiet
    /\ UNCHANGED <<dbExists, sentinel, comments, seq, cookie, now, inserted,
                   loginAt, lastActive, boot>>

\* Faulty variant: the sentinel file is left as it was read.
write_sentinel_skipped == sentinel

\* f.seek(0); f.write('0'); f.truncate()
write_sentinel == "0"

ResetWriteSentinel ==
    /\ pc = "reset_write_sentinel"
    /\ sentinel' = write_sentinel
    /\ pc' = "run"
    /\ Quiet
    /\ UNCHANGED <<dbExists, tables, login, comments, seq, cookie, now, inserted,
                   lastSet, loginAt, lastActive, boot>>

\* uvicorn.run: the server starts serving
Run ==
    /\ pc = "run"
    /\ pc' = "serving"
    /\ boot' = <<>>
    /\ Quiet
    /\ UNCHANGED <<dbExists, tables, sentinel, login, comments, seq, cookie, now,
                   inserted, lastSet, loginAt, lastActive>>

\* ------------------------------------------------------------- environment
\* the server process is stopped
Stop ==
    /\ pc = "serving"
    /\ pc' = "off"
    /\ Quiet
    /\ UNCHANGED <<dbExists, tables, sentinel, login, comments, seq, cookie, now,
                   inserted, lastSet, loginAt, lastActive, boot>>

\* the operator (or setup.sh) rewrites the sentinel file between start-ups
SetSentinel(text) ==
    /\ pc = "off"
    /\ sentinel' = text
    /\ Quiet
    /\ UNCHANGED <<pc, dbExists, tables, login, comments, seq, cookie, now,
                   inserted, lastSet, loginAt, lastActive, boot>>

Tick ==
    /\ pc \in {"off", "serving"}
    /\ now + TickStep <= MaxTicks * TickStep
    /\ now' = now + TickStep
    /\ Quiet
    /\ UNCHANGED <<pc, dbExists, tables, sentinel, login, comments, seq, cookie,
                   inserted, lastSet, loginAt, lastActive, boot>>

\* ------------------------------------------------------------ specification
Init ==
    /\ pc = "off"
    /\ dbExists = FALSE
    /\ tables = {}
    /\ sentinel \in SentinelContents
    /\ login = {}
    /\ comments = {}
    /\ seq = 0
    /\ cookie = [c \in Clients |-> <<>>]
    /\ now = 0
    /\ req = NoRequest
    /\ resp = NoResponse
    /\ inserted = <<>>
    /\ lastSet = ""
    /\ loginAt = [c \in Clients |-> -1]
    /\ lastActive = [c \in Clients |-> -1]
    /\ boot = <<>>

\* start-up, shutdown and the operator's sentinel file
Lifecycle ==
    \/ StartInit
    \/ InitMakeComments
    \/ InitMakeLoginCreate
    \/ InitMakeLoginInsert
    \/ ReadSentinel
    \/ ResetMakeLoginCreate
    \/ ResetMakeLoginInsert
    \/ ResetWriteSentinel
    \/ Run
    \/ Stop
    \/ \E text \in SentinelContents : SetSentinel(text)

\* every route but /create_record
Requests ==
    \/ \E c \in Clients : Status(c)
    \/ \E c \in Clients : Logout(c)
    \/ \E c \in Clients, u \in Usernames, p \in Passwords : Login(c, u, p)
    \/ \E c \in Clients : AdminCheck(c)
    \/ \E c \in Clients, p \in Passwords, h \in Headers, s \in Salts :
          ChangePass(c, p, h, s)
    \/ \E c \in Clients : GetAllRecords(c)
    \/ \E c \in Clients, h \in Headers : PurgeAllRecords(c, h)
    \/ \E c \in Clients, r \in FormRoutes : MissingForm(c, r, <<>>)

Submissions == \E c \in Clients, t \in Texts : CreateRecord(c, t)

Next == Lifecycle \/ Requests \/ Submissions \/ Tick

\* The whole system.
Spec == Init /\ [][Next]_vars

\* The system while the clock stands still: every route and start-up path,
\* no session ever ages.
NextStore == Lifecycle \/ Requests \/ Submissions

SpecStore == Init /\ [][NextStore]_vars

\* The system with the clock running and no comment submitted: sessions age,
\* expire and are refreshed.
NextClock == Lifecycle \/ Requests \/ Tick

SpecClock == Init /\ [][NextClock]_vars

\* ------------------------------------------------------------------ claims
\* What GET /admin_check answers to client c's next request, sent now.
AdminCheckStatus(c) == check_user_route(LoadSession(cookie[c])).resp.status

RECURSIVE Reverse(_)
Reverse(s) == IF s = <<>> THEN <<>> ELSE Append(Reverse(Tail(s)), Head(s))

\* The request came with a permitted session or with the configured token as
\* its Authorization credential.
CarriesAuthority(request) ==
    \/ SessionGetUser(request.session).permitted
    \/ request.header /= <<>> /\ request.header[2] = BEARER_TOKEN

\* The request came with a permitted session or with the header
\* "Authorization: Bearer <configured token>".
Authorized(request) ==
    \/ SessionGetUser(request.session).permitted
    \/ request.header = <<"Bearer", BEARER_TOKEN>>

\* C1: a request to /change_pass or /purge_all_records that carries neither a
\* permitted session nor the configured bearer token is answered with an
\* envelope whose status is false.
C1_UnauthorizedGetsStatusFalse ==
    (req.route \in {"change_pass", "purge_all_records"} /\ ~CarriesAuthority(req))
        => (resp.kind = "json" /\ resp.status = FALSE)

\* C2: /login answers status true exactly when (username, password) matches the
\* stored credential; a following /admin_check on that session answers the
\* same status, and after a failed attempt the session holds no user entry,
\* also when it was authenticated before.
C2_LoginOutcome ==
    (req.route = "login" /\ Len(req.form) = 2) =>
        LET matches == \E row \in login : /\ row.username = req.form[1]
                                          /\ Argon2Verify(row.password, req.form[2])
        IN  /\ resp.kind = "json"
            /\ resp.status = matches
            /\ AdminCheckStatus(req.client) = matches
            /\ ~matches => "user" \notin DOMAIN LoadSession(cookie[req.client])

C2_FailedReloginWitness ==
    /\ req.route = "login"
    /\ Len(req.form) = 2
    /\ SessionGetUser(req.session).permitted
    /\ resp.kind = "json" /\ ~resp.status

\* C3: /logout always answers status true and leaves the session anonymous,
\* whatever the session was; a session that /admin_check reports as not
\* permitted becomes permitted again only by a successful /login on it.
C3_LogoutInvalidates ==
    /\ [](req.route = "logout" =>
            /\ Succeeded(resp)
            /\ LoadSession(cookie[req.client]) = EmptySession
            /\ ~AdminCheckStatus(req.client))
    /\ [][\A c \in Clients :
            (~AdminCheckStatus(c) /\ AdminCheckStatus(c)') =>
                (req'.route = "login" /\ req'.client = c /\ Succeeded(resp'))]_vars

C3_LogoutOfPermittedWitness ==
    /\ req.route = "logout"
    /\ SessionGetUser(req.session).permitted
    /\ Succeeded(resp)

\* C4: an authorized /purge_all_records answers status true and leaves
\* get_all_records empty, whatever was inserted or purged before.
C4_PurgeEmpties ==
    (req.route = "purge_all_records" /\ Authorized(req))
        => (Succeeded(resp) /\ get_all_records = <<>> /\ comments = {})

C4_PurgeAfterInsertsWitness ==
    /\ req.route = "purge_all_records"
    /\ Succeeded(resp)
    /\ seq >= 2
    /\ get_all_records = <<>>

\* C5: get_all_records is exactly the texts inserted since the last purge,
\* newest first, one element per insert; the rows' ids are distinct, the
\* listing runs in strictly descending id, and every insert takes an id above
\* every id used before it, also across a purge.
C5_ListingIsInsertsNewestFirst ==
    /\ [](/\ get_all_records = Reverse(inserted)
          /\ Cardinality(comments) = Len(inserted)
          /\ \A r \in comments : r.id >= 1 /\ r.id <= seq
          /\ \A r, q \in comments : r.id = q.id => r = q
          /\ LET rows == OrderByIdDesc(comments)
             IN  \A i, j \in 1..Len(rows) : i < j => rows[i].id > rows[j].id
          /\ req.route = "get_all_records" =>
                (Succeeded(resp) /\ resp.data = Reverse(inserted))
          /\ (req.route = "create_record" /\ Len(req.form) = 1) =>
                (Succeeded(resp) /\ Head(get_all_records) = req.form[1]))
    /\ [][/\ pc = "serving" => seq' >= seq
          /\ (req'.route = "create_record" /\ Len(req'.form) = 1) =>
                \E r \in comments' :
                    /\ comments' = comments \cup {r}
                    /\ r.id > seq
                    /\ r.text = req'.form[1]
                    /\ \A q \in comments : r.id > q.id]_vars

C5_DuplicatesAfterPurgeWitness ==
    /\ req.route = "get_all_records"
    /\ Len(inserted) >= 2
    /\ inserted[1] = inserted[2]
    /\ seq > Len(inserted)
    /\ resp.data = Reverse(inserted)

\* C6: a /login with the stored username succeeds exactly when its password
\* is the one the credential was last set to, by the latest successful
\* /change_pass or by the latest reset to the default.
C6_RotationTakesEffect ==
    (req.route = "login" /\ Len(req.form) = 2
        /\ \E row \in login : row.username = req.form[1])
        => (Succeeded(resp) <=> req.form[2] = lastSet)

C6_OldPasswordFailsWitness ==
    /\ req.route = "login"
    /\ req.form = <<DefaultUser, DefaultPassword>>
    /\ lastSet = "hunter2"
    /\ ~Succeeded(resp)

\* init() has returned at some earlier start-up.
Initialized == dbExists /\ pc \notin {"init_make_comments", "init_make_login",
                                      "init_insert_login"}

\* C7: in every state after initialization the login table holds exactly one
\* row, the intermediate committed states of make_login included.
C7_ExactlyOneCredentialRow == Initialized => Cardinality(login) = 1

\* The session of client c is within max_age of its last response that
\* carried a permitted session.
Fresh(c) == lastActive[c] >= 0 /\ now - lastActive[c] <= max_age

\* C8 as stated: /admin_check on a session whose last successful login was at
\* T (no logout or failed login since) answers true exactly up to T + max_age.
C8_FixedExpiryFromLogin ==
    (req.route = "admin_check" /\ loginAt[req.client] >= 0)
        => (resp.status <=> now <= loginAt[req.client] + max_age)

\* C8 as amended: the expiry slides. /admin_check answers true exactly when at
\* most max_age seconds have passed since the session's last request that was
\* served with a permitted session (at first the successful login), and no
\* logout or failed login came since.
C8_SlidingExpiry ==
    /\ \A c \in Clients : AdminCheckStatus(c) = Fresh(c)
    /\ req.route = "admin_check" => (resp.kind = "json" /\ resp.status = Fresh(req.client))

C8_RefreshedPastLoginWindowWitness ==
    /\ req.route = "admin_check"
    /\ loginAt[req.client] >= 0
    /\ now > loginAt[req.client] + max_age
    /\ resp.status

DefaultCredential == {[username |-> DefaultUser, password |-> DefaultHash]}

\* C9: when start-up reaches uvicorn.run, the comments are those found at
\* start-up; if the sentinel read '1' the credential is the default row and
\* the sentinel now reads '0' (so the next start-up does not reset), and
\* otherwise the credential and the sentinel are as found. The comments table
\* exists and keeps its rows at every step of a reset.
C9_ResetIsOneTime ==
    /\ pc \in {"reset_make_login", "reset_insert_login", "reset_write_sentinel", "run"}
          => (boot /= <<>> /\ comments = boot[1].comments /\ "comments" \in tables)
    /\ pc = "run" =>
          IF Strip(boot[1].sentinel) = "1"
          THEN login = DefaultCredential /\ sentinel = "0"
          ELSE login = boot[1].login /\ sentinel = boot[1].sentinel

C9_ResetOfRotatedCredentialWitness ==
    /\ pc = "run"
    /\ Strip(boot[1].sentinel) = "1"
    /\ boot[1].comments /= {}
    /\ boot[1].login /= DefaultCredential
    /\ login = DefaultCredential

\* C10: a successful /change_pass leaves the comments, the id counter, the
\* stored username and every client's session as they were; every session
\* that /admin_check reported permitted before it is reported permitted after.
C10_ChangePassFrame ==
    [][(req'.route = "change_pass" /\ Succeeded(resp')) =>
          /\ comments' = comments
          /\ seq' = seq
          /\ {row.username : row \in login'} = {row.username : row \in login}
          /\ Cardinality(login') = Cardinality(login)
          /\ \A c \in Clients :
                /\ LoadSession(cookie[c])' = LoadSession(cookie[c])
                /\ AdminCheckStatus(c)' = AdminCheckStatus(c)]_vars

C10_RotationBesideOtherSessionWitness ==
    /\ req.route = "change_pass"
    /\ Succeeded(resp)
    /\ SessionGetUser(req.session).permitted
    /\ req.header = <<>>
    /\ \E c \in Clients \ {req.client} : AdminCheckStatus(c)
    /\ comments /= {}

====
